---- MODULE Spec2Model ----
(***************************************************************************)
(* Model of the Bixi station-status reader (read_bixi.py).                 *)
(*                                                                         *)
(*   Spec        read_day: the Day Assembler folding capture files into    *)
(*               time_vector / bikes_available / max_bikes /               *)
(*               stations_metadata, then repairing the lengths.            *)
(*   SpecOneFile read_day over a day that holds exactly one capture file,  *)
(*               the file being kept in `filename`, so that properties of  *)
(*               the decoder (bixi2dict, bixi2np) can be stated on the     *)
(*               input and the result together.                            *)
(*   SpecSeries  one Station Series Accumulator under add(record).         *)
(*   SpecNet     the Network Accumulator under add(snapshot).              *)
(*   SpecResample  one call of resample_time on a series or on a dict of   *)
(*               series; the regression tree of the library is modelled    *)
(*               by the step function a fully grown tree computes.         *)
(*   SpecDay2File  one call of day2file, which the compiler rejects.       *)
(*                                                                         *)
(* The two accumulators are not part of read_bixi.py; they are modelled    *)
(* from their description (sections 3, 4.2 and 4.3 of the specification).  *)
(*                                                                         *)
(* Python dicts are functions whose DOMAIN is the key set.  A station key  *)
(* is str(terminalName); the model keeps the integer, the terminals used   *)
(* have one digit so that sorted() on the strings is the numeric order.    *)
(***************************************************************************)
EXTENDS Integers, Sequences, FiniteSets, TLC

VARIABLES
    time_vector,        \* read_day: accepted measurement times, in order
    bikes_available,    \* read_day: station -> series of bikes (or NaN)
    max_bikes,          \* read_day: station -> series of docks (or NaN)
    stations_metadata,  \* read_day: station -> metadata of first sight
    pc,                 \* read_day: "loop" | "raised" | "done"
    i,                  \* read_day: 1 + number of files handled
    outcome,            \* branch taken for the last file of the loop
    time_,              \* read_day: time of the last decoded file (0: none)
    filename,           \* SpecOneFile: the one capture file of the day
    reported,           \* history: what each accepted snapshot reported
    series,             \* SpecSeries: one StationSeries
    added,              \* SpecSeries: the records added to it, in order
    network,            \* SpecNet: the NetworkAccumulator
    before,             \* SpecNet: the accumulator before the last add
    snapshot,           \* SpecNet: the snapshot of the last add
    nfed,               \* SpecNet: number of snapshots added
    resample_args,      \* SpecResample: the arguments X and y of the call
    resample_pc,        \* SpecResample: "idle" | "call" | "returned"
    resample_ret,       \* SpecResample: what the call returned or raised
    day2file_locals,    \* SpecDay2File: the day of the call (t, x, mx, md)
    day2file_pc,        \* SpecDay2File: "idle" | "call" | "raised"
    saved               \* SpecDay2File: arrays written to the .npz file

dayVars == <<time_vector, bikes_available, max_bikes, stations_metadata,
             pc, i, outcome, time_, filename, reported>>
seriesVars == <<series, added>>
netVars == <<network, before, snapshot, nfed>>
resampleVars == <<resample_args, resample_pc, resample_ret>>
day2fileVars == <<day2file_locals, day2file_pc, saved>>
vars == <<dayVars, seriesVars, netVars, resampleVars, day2fileVars>>

----------------------------------------------------------------------------
(* Values *)

\* np.nan, the missing-value sentinel; every stored count is >= 0.
NaN == -1

\* Widths of the numpy slots of bixi2np.
UInt8Mod == 256

\* Number of capture files of the day (len(list_filename)).
MaxFiles == 3

Terminals == {1, 2}
BikeVals == {1, 2}
DockVals == {3}

\* lastCommWithServer values, in milliseconds.
CommVals == {1600, 2000, 3600}

\* The station elements of the inputs carry a name that changes with the
\* bike count, so that a station's attributes differ between captures.
NameOf(b) == IF b = 1 THEN "A" ELSE "B"

\* The text of an element is a sequence of at most one value: <<>> is an
\* element without text (convertXml2YamlAux then gives no 'text' entry).
NoText == <<>>
Text(v) == <<v>>

StationElement(t, b, e, c, u, n, l) ==
    [terminalName |-> t, nbBikes |-> b, nbEmptyDocks |-> e,
     lastCommWithServer |-> c, lastUpdateTime |-> u, name |-> n, locked |-> l]

\* A capture file: parses or not; when it parses, its station elements.
BadFile == [parses |-> FALSE, children |-> <<>>]
XmlFile(children) == [parses |-> TRUE, children |-> children]

----------------------------------------------------------------------------
(* Helpers *)

Max(S) == CHOOSE x \in S : \A y \in S : y <= x
Min(S) == CHOOSE x \in S : \A y \in S : x <= y
Range(s) == {s[j] : j \in 1..Len(s)}

RECURSIVE sorted(_)
sorted(S) == IF S = {} THEN <<>> ELSE <<Min(S)>> \o sorted(S \ {Min(S)})

\* np.empty(n, dtype=np.uint8) * np.nan
NaNs(n) == [j \in 1..n |-> NaN]

\* Storing into a numpy slot of the given width.
uint8(x) == x % UInt8Mod
\* A uint32 slot keeps every value below 2^32; the times of the model stay
\* far below that, so the slot returns what was stored.
uint32(x) == x

----------------------------------------------------------------------------
(* bixi2dict *)

\* The coercion loops of one station element: int() of the int fields,
\* bool() of the flags.  An element without text leaves no entry in
\* dict_out, so dict_out[key] raises KeyError.
Coerces(el) == Len(el.lastUpdateTime) = 1

\* bool(text) is True for every non-empty text, "false" included.
PyBool(text) == text # ""

dict_out(el) ==
    [terminalName |-> el.terminalName, nbBikes |-> el.nbBikes,
     nbEmptyDocks |-> el.nbEmptyDocks,
     lastCommWithServer |-> el.lastCommWithServer,
     lastUpdateTime |-> el.lastUpdateTime[1],
     name |-> el.name, locked |-> PyBool(el.locked)]

\* stations[str(terminalName)] = dict_out, element after element: a later
\* element with the same terminalName replaces the earlier one.
\* Variant: the loop over the children returns after its first element.
StationsOfFirstOnly(children, stations) ==
    IF children = <<>> THEN stations
    ELSE [s \in {Head(children).terminalName} |-> dict_out(Head(children))]

RECURSIVE StationsOf(_, _)
StationsOf(children, stations) ==
    IF children = <<>> THEN stations
    ELSE LET d == dict_out(Head(children))
             k == d.terminalName
         IN StationsOf(Tail(children),
                [s \in DOMAIN stations \cup {k} |->
                    IF s = k THEN d ELSE stations[s]])

EmptyDict == [s \in {} |-> 0]

bixi2dict(f) ==
    IF ~f.parses THEN [raised |-> "BadXMLFile", stations |-> EmptyDict]
    ELSE IF \E j \in 1..Len(f.children) : ~Coerces(f.children[j])
         THEN [raised |-> "KeyError", stations |-> EmptyDict]
    ELSE [raised |-> "none", stations |-> StationsOf(f.children, EmptyDict)]

----------------------------------------------------------------------------
(* bixi2np *)

\* int(lastCommWithServer / 1000) stored in a uint32 slot.
last_comm(d) == uint32(d.lastCommWithServer \div 1000)

\* bikes_available[i] = nbBikes, a uint8 slot.
bikes_of(d) == uint8(d.nbBikes)

\* max_bikes[i] = bikes_available[i] + nbEmptyDocks, a uint8 slot.
max_bikes_of(d) == uint8(bikes_of(d) + d.nbEmptyDocks)

NoArrays ==
    [measurement_time |-> 0, bikes_available |-> <<>>, max_bikes |-> <<>>,
     list_stations |-> <<>>]

bixi2np(f) ==
    LET r == bixi2dict(f)
        d == r.stations
        list_stations == sorted(DOMAIN d)
        n == Len(list_stations)
    IN  IF r.raised # "none" THEN [raised |-> r.raised] @@ NoArrays
        ELSE IF n = 0
             \* np.max of an empty array
             THEN [raised |-> "ValueError"] @@ NoArrays
        ELSE [raised |-> "none",
              measurement_time |->
                  Max({last_comm(d[list_stations[j]]) : j \in 1..n}),
              bikes_available |->
                  [j \in 1..n |-> bikes_of(d[list_stations[j]])],
              max_bikes |->
                  [j \in 1..n |-> max_bikes_of(d[list_stations[j]])],
              list_stations |-> list_stations]

----------------------------------------------------------------------------
(* read_day *)

\* The five del statements on the metadata of a new station.
StripMeasurement(d) == [name |-> d.name, locked |-> d.locked]

EmptyDay ==
    [time_vector |-> <<>>, bikes_available |-> EmptyDict,
     max_bikes |-> EmptyDict, stations_metadata |-> EmptyDict,
     pc |-> "loop", outcome |-> "none", time_ |-> 0]

\* Variant: a known station is padded up to the current tick first.
AppendOrCreateAligned(dict, station, value, n) ==
    IF station \in DOMAIN dict
    THEN dict[station] \o NaNs(n - 1 - Len(dict[station])) \o <<value>>
    ELSE [j \in 1..n |-> IF j = n THEN value ELSE NaN]

\* Variant: a new series holds the reported value only.
AppendOrCreateNoBackfill(dict, station, value, n) ==
    IF station \in DOMAIN dict THEN Append(dict[station], value)
    ELSE <<value>>

\* Variant: the value of a known station is put in front of its series.
AppendOrCreateInFront(dict, station, value, n) ==
    IF station \in DOMAIN dict THEN <<value>> \o dict[station]
    ELSE [j \in 1..n |-> IF j = n THEN value ELSE NaN]

\* The series of one station after the zip loop handled it: appended to
\* when the key exists, created NaN-filled with the value last otherwise.
AppendOrCreate(dict, station, value, n) ==
    IF station \in DOMAIN dict
    THEN Append(dict[station], value)
    ELSE [j \in 1..n |-> IF j = n THEN value ELSE NaN]

\* Variant: the time is compared with the last accepted time only.
AlreadySeenLast(tv, t) == tv # <<>> /\ t = tv[Len(tv)]

\* "time_ not in time_vector", negated.
AlreadySeen(tv, t) == t \in Range(tv)

\* Variant: every station of the snapshot is handled as a new one.
NewStationsAll(s, present) == present

\* Variant: only the first of the new stations of a snapshot is set up.
NewStationsFirstOnly(s, present) ==
    LET new == present \ DOMAIN s.bikes_available
    IN  IF new = {} THEN {} ELSE {Min(new)}

\* The stations for which bikes_available[station].append raises KeyError.
NewStations(s, present) == present \ DOMAIN s.bikes_available

\* The body of the loop over list_filename for one file.
ProcessFile(s, f) ==
    LET r == bixi2np(f)
        tv == Append(s.time_vector, r.measurement_time)
        n == Len(tv)
        present == Range(r.list_stations)
        idx(st) == CHOOSE j \in 1..Len(r.list_stations) :
                       r.list_stations[j] = st
        current_status == bixi2dict(f).stations
    IN  IF r.raised = "BadXMLFile"
        THEN [s EXCEPT !.outcome = "skipped"]
        ELSE IF r.raised # "none"
        THEN [s EXCEPT !.pc = "raised", !.outcome = "raised"]
        ELSE IF AlreadySeen(s.time_vector, r.measurement_time)
        THEN [s EXCEPT !.outcome = "duplicate", !.time_ = r.measurement_time]
        ELSE [time_vector |-> tv,
              bikes_available |->
                  [st \in DOMAIN s.bikes_available \cup present |->
                      IF st \in present
                      THEN AppendOrCreate(s.bikes_available, st,
                                          r.bikes_available[idx(st)], n)
                      ELSE s.bikes_available[st]],
              max_bikes |->
                  [st \in DOMAIN s.max_bikes \cup present |->
                      IF st \in present
                      THEN AppendOrCreate(s.max_bikes, st,
                                          r.max_bikes[idx(st)], n)
                      ELSE s.max_bikes[st]],
              stations_metadata |->
                  [st \in DOMAIN s.stations_metadata
                          \cup NewStations(s, present) |->
                      IF st \in NewStations(s, present)
                      THEN StripMeasurement(current_status[st])
                      ELSE s.stations_metadata[st]],
              pc |-> "loop",
              outcome |-> "accepted",
              time_ |-> r.measurement_time]

\* Variant: one missing value is appended whatever the deficit.
remaining_items_one(s, st) == NaNs(1)

\* remaining_items of the length check, for a station that is short.
remaining_items(s, st) ==
    NaNs(Len(s.time_vector) - Len(s.bikes_available[st]))

\* "Check that all vectors have the same length", then return.  Both
\* series of a station get the remaining_items computed from its
\* bikes_available.
Repair(s) ==
    LET short(st) == Len(s.bikes_available[st]) < Len(s.time_vector)
    IN  [s EXCEPT
            !.bikes_available =
                [st \in DOMAIN s.bikes_available |->
                    IF short(st)
                    THEN s.bikes_available[st] \o remaining_items(s, st)
                    ELSE s.bikes_available[st]],
            !.max_bikes =
                [st \in DOMAIN s.max_bikes |->
                    IF st \in DOMAIN s.bikes_available /\ short(st)
                    THEN s.max_bikes[st] \o remaining_items(s, st)
                    ELSE s.max_bikes[st]],
            !.pc = "done",
            !.outcome = "returned"]

Day ==
    [time_vector |-> time_vector, bikes_available |-> bikes_available,
     max_bikes |-> max_bikes, stations_metadata |-> stations_metadata,
     pc |-> pc, outcome |-> outcome, time_ |-> time_]

Becomes(s) ==
    /\ time_vector' = s.time_vector
    /\ bikes_available' = s.bikes_available
    /\ max_bikes' = s.max_bikes
    /\ stations_metadata' = s.stations_metadata
    /\ pc' = s.pc
    /\ outcome' = s.outcome
    /\ time_' = s.time_

\* What the stations of a decoded file report: the values bixi2np returns
\* for each of them and the attributes bixi2dict holds for them.
Report(f) ==
    LET r == bixi2np(f)
        idx(st) == CHOOSE j \in 1..Len(r.list_stations) :
                       r.list_stations[j] = st
    IN  [st \in Range(r.list_stations) |->
            [bikes_available |-> r.bikes_available[idx(st)],
             max_bikes |-> r.max_bikes[idx(st)],
             metadata |-> StripMeasurement(bixi2dict(f).stations[st])]]

\* The history after the loop body ran on f: one entry per accepted tick.
Reported(f) ==
    IF outcome' = "accepted" THEN Append(reported, Report(f)) ELSE reported

----------------------------------------------------------------------------
(* Station Series Accumulator *)

StationRecord(t, n, b, e, u) ==
    [terminal_id |-> t, name |-> n, bikes_available |-> b,
     empty_docks |-> e, last_update_time |-> u]

EmptySeries == [measurements |-> <<>>, metadata_versions |-> <<>>]

\* The record minus its volatile fields, plus the derived total_docks.
MetadataOf(r) ==
    [terminal_id |-> r.terminal_id, name |-> r.name,
     total_docks |-> r.bikes_available + r.empty_docks,
     last_update_time |-> r.last_update_time]

\* Variant: the comparison of two versions includes last_update_time.
SameVersionWithTime(m1, m2) == m1 = m2

\* Two metadata versions compared ignoring last_update_time.
SameVersion(m1, m2) ==
    [m1 EXCEPT !.last_update_time = 0] = [m2 EXCEPT !.last_update_time = 0]

\* Variant: a measurement is stored only for a later timestamp.
IsNewTimestampLater(ss, r) ==
    \/ ss.measurements = <<>>
    \/ r.last_update_time > ss.measurements[Len(ss.measurements)][1]

\* Variant: every record is stored as a measurement.
IsNewTimestampAlways(ss, r) == TRUE

\* The record's last_update_time differs from the last stored timestamp,
\* or nothing is stored yet.
IsNewTimestamp(ss, r) ==
    \/ ss.measurements = <<>>
    \/ r.last_update_time # ss.measurements[Len(ss.measurements)][1]

IsNewVersion(ss, r) ==
    \/ ss.metadata_versions = <<>>
    \/ ~SameVersion(MetadataOf(r),
                    ss.metadata_versions[Len(ss.metadata_versions)])

\* StationSeries.add(record)
SeriesAdd(ss, r) ==
    [measurements |->
        IF IsNewTimestamp(ss, r)
        THEN Append(ss.measurements, <<r.last_update_time, r.bikes_available>>)
        ELSE ss.measurements,
     metadata_versions |->
        IF IsNewVersion(ss, r)
        THEN Append(ss.metadata_versions, MetadataOf(r))
        ELSE ss.metadata_versions]

----------------------------------------------------------------------------
(* Network Accumulator *)

\* last_update_time before any snapshot was accepted.
NoUpdate == 0

NetworkSnapshot(t, records) ==
    [network_update_time |-> t, station_records |-> records]

EmptyNetwork == [last_update_time |-> NoUpdate, stations |-> EmptyDict]

\* Each record routed to the series of its terminal_id, created on first
\* sight, in the order of the records.
RECURSIVE Route(_, _)
Route(stations, records) ==
    IF records = <<>> THEN stations
    ELSE LET r == Head(records)
             t == r.terminal_id
             ss == IF t \in DOMAIN stations THEN stations[t] ELSE EmptySeries
         IN  Route([k \in DOMAIN stations \cup {t} |->
                       IF k = t THEN SeriesAdd(ss, r) ELSE stations[k]],
                   Tail(records))

\* Variant: no whole-snapshot deduplication.
IsRepeatedNever(net, snap) == FALSE

\* The snapshot carries the network time of the last accepted snapshot.
IsRepeated(net, snap) == snap.network_update_time = net.last_update_time

\* NetworkAccumulator.add(snapshot)
NetworkAdd(net, snap) ==
    IF IsRepeated(net, snap) THEN net
    ELSE [last_update_time |-> snap.network_update_time,
          stations |-> Route(net.stations, snap.station_records)]

RECURSIVE Replay(_, _)
Replay(net, snaps) ==
    IF snaps = <<>> THEN net
    ELSE Replay(NetworkAdd(net, Head(snaps)), Tail(snaps))

----------------------------------------------------------------------------
(* resample_time *)

\* np.arange(start, stop, step) for a positive step.
arange_inclusive(start, stop, step) ==
    [j \in 1..((stop - start) \div step + 1) |-> start + step * (j - 1)]

arange(start, stop, step) ==
    [j \in 1..((stop - start + step - 1) \div step) |-> start + step * (j - 1)]

\* The output time vector, in minutes.
x_fit == arange(0, 1440, 2)

HasNaN(v) == \E j \in 1..Len(v) : v[j] = NaN

\* regressor.fit(X, y) accepts its arguments: as many values as times, at
\* least one sample, no missing value.  Otherwise it raises ValueError.
FitAccepts(X, y) == Len(X) = Len(y) /\ Len(X) >= 1 /\ ~HasNaN(y)

Dist(a, b) == IF a >= b THEN a - b ELSE b - a

\* The leaf of the fitted tree a time g falls in, given as the index of a
\* sample of that leaf.  The tree has no depth limit, so it is grown until
\* every leaf holds one value; a split between two neighbouring sample
\* times lies at their midpoint and a time at the midpoint goes with the
\* smaller one ("<= threshold" is the left branch).  The sample times are
\* distinct, as the times of a day are.
leaves(X, g) ==
    {k \in 1..Len(X) :
        \A j \in 1..Len(X) :
            \/ Dist(X[k], g) < Dist(X[j], g)
            \/ Dist(X[k], g) = Dist(X[j], g) /\ X[k] <= X[j]}

leaf(X, g) == CHOOSE k \in leaves(X, g) : TRUE

\* Variant: a value only at the sampled times, a missing value elsewhere.
predict_sampled(X, y, g) ==
    IF \E k \in 1..Len(X) : X[k] = g
    THEN y[CHOOSE k \in 1..Len(X) : X[k] = g]
    ELSE NaN

\* Variant: between two samples, the mean of their two values.
predict_mean(X, y, g) ==
    LET below == {k \in 1..Len(X) : X[k] <= g}
        above == {k \in 1..Len(X) : X[k] >= g}
        lo == IF below = {} THEN leaf(X, g)
              ELSE CHOOSE k \in below : \A j \in below : X[j] <= X[k]
        hi == IF above = {} THEN leaf(X, g)
              ELSE CHOOSE k \in above : \A j \in above : X[k] <= X[j]
    IN  (y[lo] + y[hi]) \div 2

\* regressor.predict at one time.
predict_at(X, y, g) == y[leaf(X, g)]

\* regressor.predict(x_fit)
predict(X, y) == [j \in 1..Len(x_fit) |-> predict_at(X, y, x_fit[j])]

\* The call on a single series (y is not a dict).
resample_series(X, y) ==
    IF FitAccepts(X, y)
    THEN [raised |-> "none", x_fit |-> x_fit, y_fit |-> predict(X, y)]
    ELSE [raised |-> "ValueError", x_fit |-> <<>>, y_fit |-> <<>>]

\* y_fit of the recursive call for one key of the dict.
y_fit_of_key(X, y, key) == resample_series(X, y[key]).y_fit

\* "for key in y" over the keys still to visit, in the dict's own order:
\* y[key] is overwritten in place as the loop goes, and the first fit
\* that raises ends the loop with the later keys untouched.
RECURSIVE resample_keys(_, _, _)
resample_keys(X, y, keys) ==
    IF keys = <<>>
    THEN [raised |-> "none", y |-> y]
    ELSE IF ~FitAccepts(X, y[Head(keys)])
    THEN [raised |-> "ValueError", y |-> y]
    ELSE resample_keys(X,
                       [y EXCEPT ![Head(keys)] =
                                     y_fit_of_key(X, y, Head(keys))],
                       Tail(keys))

\* The call on a dict whose keys iterate in the order keys: x_fit of the
\* last recursive call is returned alone.  With no key, x_fit is never
\* bound.
resample_dict(X, y, keys) ==
    LET r == resample_keys(X, y, keys)
    IN  IF r.raised # "none"
        THEN [raised |-> r.raised, x_fit |-> <<>>, y |-> r.y]
        ELSE IF keys = <<>>
        THEN [raised |-> "UnboundLocalError", x_fit |-> <<>>, y |-> y]
        ELSE [raised |-> "none", x_fit |-> x_fit, y |-> r.y]

\* An argument y of resample_time: a series, or a dict of series together
\* with the order in which the dict iterates over its keys (the order of
\* insertion, or the hash order of the interpreter).
Series(v) ==
    [isdict |-> FALSE, series |-> v, dict |-> EmptyDict, keys |-> <<>>]
Dict(d, keys) == [isdict |-> TRUE, series |-> <<>>, dict |-> d, keys |-> keys]

\* resample_time(X, y): what is returned (x_fit, and y_fit for a series),
\* what is raised, and the dict y after the call.
resample_time(X, y) ==
    IF y.isdict
    THEN LET r == resample_dict(X, y.dict, y.keys)
         IN  [raised |-> r.raised, x_fit |-> r.x_fit, y_fit |-> <<>>,
              y |-> r.y]
    ELSE LET r == resample_series(X, y.series)
         IN  [raised |-> r.raised, x_fit |-> r.x_fit, y_fit |-> r.y_fit,
              y |-> EmptyDict]

NotCalled == [raised |-> "none", x_fit |-> <<>>, y_fit |-> <<>>,
              y |-> EmptyDict]

----------------------------------------------------------------------------
(* day2file *)

\* The day a call of day2file is made for, given as the tables read_day
\* returns for it.
Locals(t, x, mx, md) ==
    [t |-> t, x |-> x, mx |-> mx, md |-> md, raised |-> "none"]

NothingSaved == [time |-> <<>>, bikes |-> EmptyDict, max_bikes |-> EmptyDict,
                 metadata |-> EmptyDict]

\* day2file as the source has it: the try statement of its body has
\* neither an except nor a finally clause, which the Python compiler
\* rejects with SyntaxError.  The function is never defined, so for any
\* day no statement of its body runs and nothing is saved.
day2file(locals) ==
    [locals |-> [locals EXCEPT !.raised = "SyntaxError"],
     pc |-> "raised",
     saved |-> NothingSaved]

----------------------------------------------------------------------------
(* Idle values of the variables a specification does not use *)

IdleDay ==
    /\ time_vector = <<>>
    /\ bikes_available = EmptyDict
    /\ max_bikes = EmptyDict
    /\ stations_metadata = EmptyDict
    /\ pc = "idle"
    /\ i = 1
    /\ outcome = "none"
    /\ time_ = 0
    /\ filename = BadFile
    /\ reported = <<>>

IdleSeries ==
    /\ series = EmptySeries
    /\ added = <<>>

IdleNet ==
    /\ network = EmptyNetwork
    /\ before = EmptyNetwork
    /\ snapshot = NetworkSnapshot(NoUpdate, <<>>)
    /\ nfed = 0

IdleResample ==
    /\ resample_args = [X |-> <<>>, y |-> Series(<<>>)]
    /\ resample_pc = "idle"
    /\ resample_ret = NotCalled

IdleDay2File ==
    /\ day2file_locals = Locals(<<>>, EmptyDict, EmptyDict, EmptyDict)
    /\ day2file_pc = "idle"
    /\ saved = NothingSaved

----------------------------------------------------------------------------
(* Inputs of Spec *)

GoodElements ==
    {StationElement(t, b, e, c, Text(c), NameOf(b), "false") :
        t \in Terminals, b \in BikeVals, e \in DockVals, c \in CommVals}

\* Elements whose lastUpdateTime has no text.
NullElements ==
    {StationElement(t, 1, 3, 1600, NoText, "A", "false") : t \in Terminals}

Elements == GoodElements \cup NullElements

Files ==
    {BadFile, XmlFile(<<>>)}
    \cup {XmlFile(<<a>>) : a \in Elements}
    \cup {XmlFile(<<a, b>>) : a, b \in Elements}

----------------------------------------------------------------------------
(* Spec: read_day over any list of files *)

Init ==
    /\ time_vector = <<>>
    /\ bikes_available = EmptyDict
    /\ max_bikes = EmptyDict
    /\ stations_metadata = EmptyDict
    /\ pc = "loop"
    /\ i = 1
    /\ outcome = "none"
    /\ time_ = 0
    /\ filename = BadFile
    /\ reported = <<>>
    /\ IdleSeries
    /\ IdleNet
    /\ IdleResample
    /\ IdleDay2File

\* One iteration of "for filename in list_filename".
ReadFile ==
    /\ pc = "loop"
    /\ i <= MaxFiles
    /\ \E f \in Files :
          /\ Becomes(ProcessFile(Day, f))
          /\ reported' = Reported(f)
    /\ i' = IF pc' = "raised" THEN i ELSE i + 1
    /\ UNCHANGED <<filename, seriesVars, netVars, resampleVars, day2fileVars>>

\* The list is exhausted: length check, then return.
EndOfDay ==
    /\ pc = "loop"
    /\ Becomes(Repair(Day))
    /\ UNCHANGED <<i, filename, reported, seriesVars, netVars, resampleVars,
                   day2fileVars>>

Next == ReadFile \/ EndOfDay

Spec == Init /\ [][Next]_vars

----------------------------------------------------------------------------
(* SpecOneFile: read_day over a day of one capture file *)

\* Counts up to and beyond what a uint8 slot holds.
WideBikeVals == {1, 200}
WideDockVals == {3, 100}
OneFileCommVals == {1600, 2000}

OneFileElements ==
    {StationElement(t, b, e, c, u, NameOf(b), "false") :
        t \in Terminals, b \in WideBikeVals, e \in WideDockVals,
        c \in OneFileCommVals, u \in {Text(1000), NoText}}

OneFileInputs ==
    {BadFile, XmlFile(<<>>)}
    \cup {XmlFile(<<a>>) : a \in OneFileElements}
    \cup {XmlFile(<<a, b>>) : a, b \in OneFileElements}

InitOneFile ==
    /\ time_vector = <<>>
    /\ bikes_available = EmptyDict
    /\ max_bikes = EmptyDict
    /\ stations_metadata = EmptyDict
    /\ pc = "loop"
    /\ i = 1
    /\ outcome = "none"
    /\ time_ = 0
    /\ filename \in OneFileInputs
    /\ reported = <<>>
    /\ IdleSeries
    /\ IdleNet
    /\ IdleResample
    /\ IdleDay2File

ReadOnlyFile ==
    /\ pc = "loop"
    /\ i = 1
    /\ Becomes(ProcessFile(Day, filename))
    /\ reported' = Reported(filename)
    /\ i' = IF pc' = "raised" THEN i ELSE i + 1
    /\ UNCHANGED <<filename, seriesVars, netVars, resampleVars, day2fileVars>>

EndOfOneFileDay ==
    /\ i = 2
    /\ EndOfDay

NextOneFile == ReadOnlyFile \/ EndOfOneFileDay

SpecOneFile == InitOneFile /\ [][NextOneFile]_vars

----------------------------------------------------------------------------
(* SpecSeries: one StationSeries under add *)

\* Number of add calls on the series.
MaxAdds == 3

SeriesRecords ==
    {StationRecord(1, n, b, e, u) :
        n \in {"A", "B"}, b \in {5, 7}, e \in {10, 12},
        u \in {100, 200, 300}}

InitSeries ==
    /\ IdleDay
    /\ IdleNet
    /\ IdleResample
    /\ IdleDay2File
    /\ series = EmptySeries
    /\ added = <<>>

AddRecord ==
    /\ Len(added) < MaxAdds
    /\ \E r \in SeriesRecords :
          /\ series' = SeriesAdd(series, r)
          /\ added' = Append(added, r)
    /\ UNCHANGED <<dayVars, netVars, resampleVars, day2fileVars>>

NextSeries == AddRecord

SpecSeries == InitSeries /\ [][NextSeries]_vars

----------------------------------------------------------------------------
(* SpecNet: the NetworkAccumulator under add *)

\* Number of snapshots added to the accumulator.
MaxSnapshots == 3

NetRecords ==
    {StationRecord(t, "A", 5, 10, 100) : t \in Terminals}
    \cup {StationRecord(t, "A", 7, 10, 200) : t \in Terminals}

Snapshots ==
    {NetworkSnapshot(t, <<r>>) : t \in {100, 200}, r \in NetRecords}
    \cup {NetworkSnapshot(t, <<r, q>>) :
              t \in {100, 200}, r \in NetRecords, q \in NetRecords}

InitNet ==
    /\ IdleDay
    /\ IdleSeries
    /\ IdleResample
    /\ IdleDay2File
    /\ network = EmptyNetwork
    /\ before = EmptyNetwork
    /\ snapshot = NetworkSnapshot(NoUpdate, <<>>)
    /\ nfed = 0

AddSnapshot ==
    /\ nfed < MaxSnapshots
    /\ \E snap \in Snapshots :
          /\ network' = NetworkAdd(network, snap)
          /\ snapshot' = snap
    /\ before' = network
    /\ nfed' = nfed + 1
    /\ UNCHANGED <<dayVars, seriesVars, resampleVars, day2fileVars>>

NextNet == AddSnapshot

SpecNet == InitNet /\ [][NextNet]_vars

----------------------------------------------------------------------------
(* SpecResample: one call of resample_time *)

SampleTimes == {0, 4, 8}
SampleValues == {1, 3, NaN}

\* The sequences of n distinct elements of S.
DistinctSeqs(S, n) ==
    {q \in [1..n -> S] : \A a, b \in 1..n : q[a] = q[b] => a = b}

\* The first n sample times in increasing order.
FirstTimes(n) == [j \in 1..n |-> sorted(SampleTimes)[j]]

SeriesInputs ==
    UNION {{[X |-> q, y |-> Series(v)] :
               q \in DistinctSeqs(SampleTimes, n),
               v \in [1..n -> SampleValues]} :
           n \in 1..Cardinality(SampleTimes)}

DictInputs ==
    UNION {UNION {{[X |-> FirstTimes(n), y |-> Dict(d, keys)] :
                      d \in [K -> [1..n -> SampleValues]],
                      keys \in DistinctSeqs(K, Cardinality(K))} :
                  K \in SUBSET Terminals} :
           n \in 1..Cardinality(SampleTimes)}

InitResample ==
    /\ IdleDay
    /\ IdleSeries
    /\ IdleNet
    /\ IdleDay2File
    /\ resample_args \in SeriesInputs \cup DictInputs
    /\ resample_pc = "call"
    /\ resample_ret = NotCalled

\* resample_time(X, y) with y a series.
CallOnSeries ==
    /\ resample_pc = "call"
    /\ ~resample_args.y.isdict
    /\ resample_ret' = resample_time(resample_args.X, resample_args.y)
    /\ resample_pc' = "returned"
    /\ UNCHANGED <<resample_args, dayVars, seriesVars, netVars, day2fileVars>>

\* resample_time(X, y) with y a dict.
CallOnDict ==
    /\ resample_pc = "call"
    /\ resample_args.y.isdict
    /\ resample_ret' = resample_time(resample_args.X, resample_args.y)
    /\ resample_pc' = "returned"
    /\ UNCHANGED <<resample_args, dayVars, seriesVars, netVars, day2fileVars>>

NextResample == CallOnSeries \/ CallOnDict

SpecResample == InitResample /\ [][NextResample]_vars

----------------------------------------------------------------------------
(* SpecDay2File: one call of day2file *)

\* Times of the capture files of a day, two minutes apart.
DayTimes == {0, 120, 240, 360, 480, 600, 720}

\* A series of n values: complete, missing at the first tick (station seen
\* late) or missing at the last tick (station gone).
DaySeries(n, shape, value) ==
    [j \in 1..n |->
        IF (shape = "late" /\ j = 1) \/ (shape = "gone" /\ j = n)
        THEN NaN ELSE value]

\* The tables read_day returns: nothing for a day without files, else one
\* station over the accepted times.
DayTables ==
    {Locals(<<>>, EmptyDict, EmptyDict, EmptyDict)}
    \cup {Locals(sorted(S),
                 [st \in {1} |-> DaySeries(Cardinality(S), shape, 5)],
                 [st \in {1} |-> DaySeries(Cardinality(S), shape, 8)],
                 [st \in {1} |-> [name |-> "A", locked |-> TRUE]]) :
             S \in SUBSET DayTimes \ {{}}, shape \in {"full"}}
    \cup {Locals(sorted(S),
                 [st \in {1} |-> DaySeries(Cardinality(S), shape, 5)],
                 [st \in {1} |-> DaySeries(Cardinality(S), shape, 8)],
                 [st \in {1} |-> [name |-> "A", locked |-> TRUE]]) :
             S \in {T \in SUBSET DayTimes : Cardinality(T) >= 2},
             shape \in {"late", "gone"}}

InitDay2File ==
    /\ IdleDay
    /\ IdleSeries
    /\ IdleNet
    /\ IdleResample
    /\ day2file_locals \in DayTables
    /\ day2file_pc = "call"
    /\ saved = NothingSaved

\* A call of day2file for the day.
Day2File ==
    /\ day2file_pc = "call"
    /\ day2file_locals' = day2file(day2file_locals).locals
    /\ day2file_pc' = day2file(day2file_locals).pc
    /\ saved' = day2file(day2file_locals).saved
    /\ UNCHANGED <<dayVars, seriesVars, netVars, resampleVars>>

NextDay2File == Day2File

SpecDay2File == InitDay2File /\ [][NextDay2File]_vars

----------------------------------------------------------------------------
(* Properties of the Day Assembler *)

Stations == DOMAIN bikes_available
accumulated == <<time_vector, bikes_available, max_bikes, stations_metadata>>

\* C1: in the DayTable read_day returns, every station has a bikes series
\* and a max_bikes series, both exactly as long as the time vector.
C1_LengthAlignment ==
    pc = "done" =>
        /\ DOMAIN max_bikes = Stations
        /\ \A st \in Stations :
              /\ Len(bikes_available[st]) = Len(time_vector)
              /\ Len(max_bikes[st]) = Len(time_vector)

\* A returned table of at least two ticks in which one station appeared
\* late (NaN first) and one disappeared (NaN appended by the length check).
C1_Witness ==
    /\ pc = "done"
    /\ Len(time_vector) >= 2
    /\ \E st \in Stations : bikes_available[st][1] = NaN
    /\ \E st \in Stations : bikes_available[st][Len(time_vector)] = NaN

NoTimeTwice(tv) ==
    \A a, b \in 1..Len(tv) : tv[a] = tv[b] => a = b

\* The loop has just decoded a file.
Decoded == outcome \in {"accepted", "duplicate"}

\* C2: a decoded snapshot whose time is already anywhere in time_vector
\* leaves time_vector, every series and the metadata as they were, and
\* time_vector never holds a time twice.
C2_DuplicateTimeNoOp ==
    /\ [](NoTimeTwice(time_vector))
    /\ [][(pc = "loop" /\ Decoded' /\ time_' \in Range(time_vector))
           => UNCHANGED accumulated]_vars

\* A file was dropped whose time is in time_vector and is not the last
\* accepted time.
C2_Witness ==
    /\ outcome = "duplicate"
    /\ Len(time_vector) >= 2
    /\ time_ \in Range(time_vector)
    /\ time_ # time_vector[Len(time_vector)]

\* C4 (as claimed): whenever the decoding of a file fails, the loop goes
\* on to the next file with the accumulated state untouched.
C4_DecodeFailureSkipped ==
    [][(pc = "loop" /\ outcome' \in {"skipped", "raised"})
       => (pc' = "loop" /\ UNCHANGED accumulated)]_vars

\* The elements of the one file whose coercion fails.
Malformed == {j \in 1..Len(filename.children) : ~Coerces(filename.children[j])}

\* C5 (as claimed): a file that parses and holds one malformed element
\* among good ones decodes without error, to the good elements.
C5_MalformedRecordDropped ==
    (/\ filename.parses
     /\ Len(filename.children) >= 2
     /\ Cardinality(Malformed) = 1
     /\ outcome # "none")
    => /\ pc # "raised"
       /\ Stations = {filename.children[j].terminalName :
                          j \in (1..Len(filename.children)) \ Malformed}

\* C6 (as claimed): the max_bikes value decoded for a station is exactly
\* nbBikes + nbEmptyDocks of its element.
C6_DocksExact ==
    outcome \in {"accepted", "returned"} =>
        \A st \in Stations :
            LET d == bixi2dict(filename).stations[st]
            IN  max_bikes[st][1] = d.nbBikes + d.nbEmptyDocks

\* The files holding the elements of f in another order.
Perms(f) ==
    LET n == Len(f.children)
    IN  {[f EXCEPT !.children = [j \in 1..n |-> f.children[p[j]]]] :
            p \in {q \in [1..n -> 1..n] : \A a, b \in 1..n : q[a] = q[b] => a = b}}

\* What read_day ends with for a day holding the one file f.
FinalOf(f) ==
    LET s == ProcessFile(EmptyDay, f)
    IN  IF s.pc = "raised" THEN s ELSE Repair(s)

DistinctTerminals(f) ==
    \A a, b \in 1..Len(f.children) :
        f.children[a].terminalName = f.children[b].terminalName => a = b

\* C10 (as claimed): every order of the elements of the file ends in the
\* same accumulated state, repeated terminals included.
C10_AnyOrderSameState ==
    pc \in {"done", "raised"} => \A g \in Perms(filename) : FinalOf(g) = Day

\* C10 (amended): every order of the elements of a file whose terminals
\* are pairwise distinct ends in the same accumulated state.
C10_DistinctTerminalsAnyOrder ==
    (pc \in {"done", "raised"} /\ DistinctTerminals(filename))
    => \A g \in Perms(filename) : FinalOf(g) = Day

\* A returned day whose file held two different terminals with different
\* counts and times.
C10_Witness ==
    /\ pc = "done"
    /\ Len(filename.children) = 2
    /\ DistinctTerminals(filename)
    /\ filename.children[1].nbBikes # filename.children[2].nbBikes
    /\ filename.children[1].lastCommWithServer
           # filename.children[2].lastCommWithServer
    /\ Cardinality(Stations) = 2

----------------------------------------------------------------------------
(* Properties of the accumulators *)

Scenario5 == NetworkSnapshot(100, <<StationRecord(1, "A", 5, 10, 100)>>)
Scenario7 == NetworkSnapshot(200, <<StationRecord(1, "A", 7, 10, 200)>>)

ScenarioFed ==
    /\ nfed = 3
    /\ before = Replay(EmptyNetwork, <<Scenario5, Scenario5>>)
    /\ snapshot = Scenario7

\* C3: adding the snapshot just added once more changes nothing; a
\* snapshot carrying the accumulator's last_update_time changes nothing;
\* network times 100, 100, 200 with one station reporting 5, 5, 7 bikes
\* leave the measurements (100, 5), (200, 7).
C3_IdempotentReingest ==
    /\ nfed >= 1 => NetworkAdd(network, snapshot) = network
    /\ (nfed >= 1 /\ snapshot.network_update_time = before.last_update_time)
           => network = before
    /\ ScenarioFed =>
           network.stations[1].measurements = <<<<100, 5>>, <<200, 7>>>>

\* The scenario was fed: the second snapshot repeated the first.
C3_Witness ==
    /\ ScenarioFed
    /\ network.last_update_time = 200
    /\ Len(network.stations[1].measurements) = 2

SameStatic(r, q) ==
    /\ r.terminal_id = q.terminal_id
    /\ r.name = q.name
    /\ r.bikes_available + r.empty_docks = q.bikes_available + q.empty_docks

DistinctTimes ==
    \A a, b \in 1..Len(added) :
        added[a].last_update_time = added[b].last_update_time => a = b

\* C7: N records with the same terminal, name and total docks and with
\* pairwise different last_update_time leave exactly one metadata version
\* and N measurements.
C7_MetadataDedup ==
    (/\ added # <<>>
     /\ \A a, b \in 1..Len(added) : SameStatic(added[a], added[b])
     /\ DistinctTimes)
    => /\ Len(series.metadata_versions) = 1
       /\ Len(series.measurements) = Len(added)

\* Three such records were added, their bike counts not all the same.
C7_Witness ==
    /\ Len(added) = 3
    /\ \A a, b \in 1..Len(added) : SameStatic(added[a], added[b])
    /\ DistinctTimes
    /\ added[1].bikes_available # added[2].bikes_available
    /\ Len(series.measurements) = 3

\* C8 (as claimed): there are never more metadata versions than
\* measurements.
C8_VersionsNoMoreThanMeasurements ==
    Len(series.metadata_versions) <= Len(series.measurements)

\* Some record repeated the timestamp of the record added before it and
\* carried other metadata.
RepeatedTimeChangedMetadata ==
    \E k \in 2..Len(added) :
        /\ added[k].last_update_time = added[k - 1].last_update_time
        /\ ~SameStatic(added[k], added[k - 1])

\* C8 (amended): there are never more metadata versions than add calls,
\* and never more than measurements unless some record repeated the last
\* stored timestamp with changed metadata.
C8_VersionsBounded ==
    /\ Len(series.metadata_versions) <= Len(added)
    /\ ~RepeatedTimeChangedMetadata
           => Len(series.metadata_versions) <= Len(series.measurements)

\* Three adds, each changing the metadata and the timestamp, the
\* timestamps going back in time.
C8_Witness ==
    /\ Len(added) = 3
    /\ ~RepeatedTimeChangedMetadata
    /\ Len(series.metadata_versions) = 3
    /\ Len(series.measurements) = 3
    /\ added[2].last_update_time < added[1].last_update_time

StoredTime(k) == series.measurements[k][1]

\* C9 (as claimed): the stored timestamps are non-decreasing.
C9_TimestampsNonDecreasing ==
    \A k \in 1..(Len(series.measurements) - 1) :
        StoredTime(k) <= StoredTime(k + 1)

Chronological ==
    \A k \in 1..(Len(added) - 1) :
        added[k].last_update_time <= added[k + 1].last_update_time

\* C9 (amended): two consecutive stored measurements never carry the same
\* timestamp, and the stored timestamps increase when the records were
\* added in non-decreasing order of last_update_time.
C9_TimestampsChangeEachEntry ==
    /\ \A k \in 1..(Len(series.measurements) - 1) :
          StoredTime(k) # StoredTime(k + 1)
    /\ Chronological =>
          \A k \in 1..(Len(series.measurements) - 1) :
              StoredTime(k) < StoredTime(k + 1)

\* Records added in order, one of them repeating a timestamp, two
\* measurements stored.
C9_Witness ==
    /\ Len(added) = 3
    /\ Chronological
    /\ ~DistinctTimes
    /\ Len(series.measurements) = 2

----------------------------------------------------------------------------
(* Properties of the series and the metadata of the Day Assembler *)

Ticks == 1..Len(time_vector)
PresentAt(st, n) == st \in DOMAIN reported[n]

\* The ticks at which a station was reported, in order, and the first one.
Appearances(st) == sorted({n \in Ticks : PresentAt(st, n)})
FirstTick(st) == Appearances(st)[1]

\* Present, then absent from an accepted tick, then present again.
Reappeared(st) ==
    \E a, b, c \in Ticks :
        /\ a < b /\ b < c
        /\ PresentAt(st, a) /\ ~PresentAt(st, b) /\ PresentAt(st, c)

\* The stored series holds the values of the appearances one after the
\* other behind the back-fill of first sight, whatever ticks lie between,
\* and nothing else before the length check; the length check then adds
\* one missing value per absent tick, all at the tail.
StoredContiguously(st) ==
    LET ap == Appearances(st)
        lead == ap[1] - 1
        absent == Len(time_vector) - lead - Len(ap)
    IN  /\ \A m \in 1..Len(ap) :
              /\ bikes_available[st][lead + m] =
                     reported[ap[m]][st].bikes_available
              /\ max_bikes[st][lead + m] = reported[ap[m]][st].max_bikes
        /\ Len(bikes_available[st]) =
              lead + Len(ap) + (IF pc = "done" THEN absent ELSE 0)
        /\ Len(max_bikes[st]) = Len(bikes_available[st])
        /\ \A j \in (lead + Len(ap) + 1)..Len(bikes_available[st]) :
              bikes_available[st][j] = NaN /\ max_bikes[st][j] = NaN

\* C12: for a station that was present, then absent from k >= 1 accepted
\* ticks, then present again, nothing is stored for the absent ticks: the
\* stored values are those of its appearances, contiguous and in order, so
\* the value reported at a tick after the gap sits at an earlier index
\* than that tick, and the missing values of the absent ticks are at the
\* tail of the returned series.
C12_ReappearanceMisaligned ==
    \A st \in Stations :
        Reappeared(st) =>
            /\ StoredContiguously(st)
            /\ \A m \in 1..Len(Appearances(st)) :
                  FirstTick(st) - 1 + m <= Appearances(st)[m]
            /\ pc = "done" =>
                  bikes_available[st][Len(time_vector)] = NaN

\* A returned table of three ticks with a station reported at the first
\* and the third only: the third report is stored at index 2 and differs
\* from the first, and index 3 holds the missing value.
C12_Witness ==
    /\ pc = "done"
    /\ Len(time_vector) = 3
    /\ \E st \in Stations :
          /\ Reappeared(st)
          /\ reported[3][st].bikes_available # reported[1][st].bikes_available
          /\ bikes_available[st][2] = reported[3][st].bikes_available
          /\ bikes_available[st][3] = NaN

\* C13: a station first seen in the snapshot accepted as tick n gets a
\* bikes series and a max_bikes series of length n, with the missing value
\* in positions 1..n-1 and the reported value in position n.
C13_BackfilledOnFirstSight ==
    [][\A st \in (DOMAIN bikes_available') \ DOMAIN bikes_available :
           LET n == Len(time_vector')
           IN  /\ Len(bikes_available'[st]) = n
               /\ Len(max_bikes'[st]) = n
               /\ \A j \in 1..(n - 1) :
                     bikes_available'[st][j] = NaN /\ max_bikes'[st][j] = NaN
               /\ bikes_available'[st][n] = reported'[n][st].bikes_available
               /\ max_bikes'[st][n] = reported'[n][st].max_bikes]_vars

\* The snapshot just accepted is the third tick and reports a station
\* that no earlier tick reported.
C13_Witness ==
    /\ outcome = "accepted"
    /\ Len(time_vector) = 3
    /\ \E st \in Stations :
          /\ FirstTick(st) = 3
          /\ bikes_available[st][1] = NaN
          /\ bikes_available[st][3] # NaN

MeasurementFields ==
    {"nbBikes", "nbEmptyDocks", "lastCommWithServer", "lastUpdateTime",
     "terminalName"}

\* C14: the metadata entry of a station is the report of the snapshot in
\* which the station was first seen, without the measurement fields, and
\* no later file changes an entry once it is written.
C14_MetadataWrittenOnce ==
    /\ [](\A st \in DOMAIN stations_metadata :
             /\ stations_metadata[st] = reported[FirstTick(st)][st].metadata
             /\ DOMAIN stations_metadata[st] \cap MeasurementFields = {})
    /\ [][\A st \in DOMAIN stations_metadata :
             /\ st \in DOMAIN stations_metadata'
             /\ stations_metadata'[st] = stations_metadata[st]]_vars

\* A later accepted snapshot reported the station under another name than
\* the one its metadata entry holds.
C14_Witness ==
    \E st \in DOMAIN stations_metadata :
        \E n \in Ticks :
            /\ n > FirstTick(st)
            /\ PresentAt(st, n)
            /\ reported[n][st].metadata.name # stations_metadata[st].name

\* Reported at every accepted tick from its first one on.
AlwaysPresent(st) ==
    \A n \in Ticks : n >= FirstTick(st) => PresentAt(st, n)

\* C15: for a station present in every accepted snapshot from its first
\* sighting on, bikes_available[station][i] and max_bikes[station][i] are,
\* for every index i at or after its first tick, the values the station
\* reported in the snapshot accepted as time_vector[i].
C15_AlignedWhenAlwaysPresent ==
    \A st \in Stations :
        AlwaysPresent(st) =>
            \A n \in Ticks :
                n >= FirstTick(st) =>
                    /\ bikes_available[st][n] =
                           reported[n][st].bikes_available
                    /\ max_bikes[st][n] = reported[n][st].max_bikes

\* A returned table of three ticks with a station first seen at the
\* second tick that reported different counts at the second and the third.
C15_Witness ==
    /\ pc = "done"
    /\ Len(time_vector) = 3
    /\ \E st \in Stations :
          /\ FirstTick(st) = 2
          /\ AlwaysPresent(st)
          /\ reported[2][st].bikes_available # reported[3][st].bikes_available

\* The condition of the "missings informations" message of read_day.
MissingMetadataWarning ==
    Cardinality(DOMAIN stations_metadata)
        # Cardinality(DOMAIN bikes_available)

\* C16: after every file, the stations with a metadata entry are exactly
\* the stations with a bikes_available series and with a max_bikes series,
\* so the two counts are equal and the warning is not issued.
C16_MetadataForEverySeries ==
    /\ DOMAIN stations_metadata = DOMAIN bikes_available
    /\ DOMAIN stations_metadata = DOMAIN max_bikes
    /\ ~MissingMetadataWarning

\* A returned table with two stations first seen in different snapshots,
\* the second one together with the first in one file.
C16_Witness ==
    /\ pc = "done"
    /\ Cardinality(DOMAIN stations_metadata) = 2
    /\ \E a, b \in Stations :
          /\ FirstTick(a) < FirstTick(b)
          /\ PresentAt(a, FirstTick(b))

----------------------------------------------------------------------------
(* Properties of resample_time *)

Returned == resample_pc = "returned"
OnSeries == ~resample_args.y.isdict
OnDict == resample_args.y.isdict

\* No series of the argument holds a missing value.
NoMissing ==
    IF OnDict
    THEN \A key \in DOMAIN resample_args.y.dict :
             ~HasNaN(resample_args.y.dict[key])
    ELSE ~HasNaN(resample_args.y.series)

\* The fitted value returned for the grid time g.
FitAt(g) == resample_ret.y_fit[g \div 2 + 1]

\* C11: for a series of any length >= 1, and for a dict of such series
\* with at least one key, resample_time returns as time vector exactly the
\* 720 grid points 0, 2, 4, ..., 1438.
C11_GridOf720Points ==
    (Returned /\ NoMissing /\ (OnDict => DOMAIN resample_args.y.dict # {}))
        => /\ resample_ret.raised = "none"
           /\ Len(resample_ret.x_fit) = 720
           /\ \A j \in 1..720 : resample_ret.x_fit[j] = 2 * (j - 1)
           /\ resample_ret.x_fit[720] = 1438

\* A call on a dict of two keys with series of two samples returned a
\* time vector from 0 to 1438.
C11_Witness ==
    /\ Returned
    /\ OnDict
    /\ DOMAIN resample_args.y.dict = Terminals
    /\ Len(resample_args.X) = 2
    /\ resample_ret.raised = "none"
    /\ resample_ret.x_fit[1] = 0
    /\ resample_ret.x_fit[720] = 1438

\* C17: applied to a dict of series, resample_time keeps the keys, puts
\* under every key the fit of that key's own series against the same
\* times, and returns the one time vector; this for every dict, the one
\* without keys included.
C17_DictResampledPerKey ==
    (Returned /\ OnDict /\ NoMissing)
        => /\ resample_ret.raised = "none"
           /\ DOMAIN resample_ret.y = DOMAIN resample_args.y.dict
           /\ \A key \in DOMAIN resample_ret.y :
                 resample_ret.y[key] =
                     resample_series(resample_args.X,
                                     resample_args.y.dict[key]).y_fit
           /\ resample_ret.x_fit = x_fit

\* C18: given exactly one (time, value) pair, the fitted value at every
\* one of the 720 grid points is that value.
C18_OneSampleConstant ==
    (Returned /\ OnSeries /\ NoMissing /\ Len(resample_args.X) = 1)
        => /\ resample_ret.raised = "none"
           /\ Len(resample_ret.y_fit) = 720
           /\ \A j \in 1..720 :
                 resample_ret.y_fit[j] = resample_args.y.series[1]

\* The one sample is (4, 3): the fit is 3 at 0, at 4 and at 1438.
C18_Witness ==
    /\ Returned
    /\ OnSeries
    /\ resample_args.X = <<4>>
    /\ resample_args.y.series = <<3>>
    /\ FitAt(0) = 3 /\ FitAt(4) = 3 /\ FitAt(1438) = 3

Scenario104 == [X |-> <<0, 4, 8>>, y |-> Series(<<1, 1, 3>>)]

\* C19: the fit is a step function of the samples: every fitted value is
\* one of the sample values, the leaf a grid time falls in is determined
\* (one leaf, ties included), and for times [0, 4, 8] with values
\* [1, 1, 3] the fit is 1 at 2 and one of 1 and 3 at 6.
C19_StepFunction ==
    (Returned /\ OnSeries /\ resample_ret.raised = "none")
        => /\ \A j \in 1..Len(x_fit) :
                 /\ resample_ret.y_fit[j] \in Range(resample_args.y.series)
                 /\ Cardinality(leaves(resample_args.X, x_fit[j])) = 1
           /\ resample_args = Scenario104 =>
                 FitAt(2) = 1 /\ FitAt(6) \in {1, 3}

\* The fit of the scenario was returned; the time 6 lies as far from the
\* sample at 4 as from the sample at 8.
C19_Witness ==
    /\ Returned
    /\ resample_args = Scenario104
    /\ resample_ret.raised = "none"
    /\ Dist(6, 4) = Dist(6, 8)
    /\ FitAt(8) = 3

----------------------------------------------------------------------------
(* Properties of day2file *)

\* read_day returned an empty time vector and empty dicts.
EmptyDayRead ==
    /\ day2file_locals.t = <<>>
    /\ day2file_locals.x = EmptyDict
    /\ day2file_locals.mx = EmptyDict

\* C20: day2file for a day without capture files ends without an error.
C20_EmptyDayFinishes ==
    (day2file_pc \notin {"idle", "call"} /\ EmptyDayRead)
        => day2file_pc # "raised"

====
